---- MODULE Spec2Model ----
(***************************************************************************)
(* Model of pyomo/gdp/plugins/cuttingplane.py: the gdp.cuttingplane        *)
(* transformation (CuttingPlane_Transformation), its separation loop       *)
(* (_generate_cuttingplanes), the normal-vector cut generator and the two  *)
(* back-off post-processors.                                               *)
(*                                                                         *)
(* Environment.  The solver and the reformulations are external.  A        *)
(* program instance is a two-variable disjunctive program on the integer   *)
(* grid 0..GridMax: the variables are bounded by 0 and GridMax (this is    *)
(* the feasible region of the relaxed big-M problem before any cut), the   *)
(* hull relaxation is the box lo..hi, and the disjunction is               *)
(* [x1 = lo1] \/ [x1 = hi1].  A solve that terminates normally returns an  *)
(* optimum; one that does not may leave any point in the variables.        *)
(*                                                                         *)
(* Numbers.  Variable values and objective values are integers.  The       *)
(* float-valued options (thresholds, tolerances) and the pad of a cut are  *)
(* rationals <<n, d>> with d > 0; comparisons are made by cross            *)
(* multiplication.  float("inf") is the record Inf.                        *)
(***************************************************************************)
EXTENDS Integers, Sequences, FiniteSets, TLC

\* ------------------------------------------------------------------ bounds
GridMax == 2
MaxRounds == 3

\* ------------------------------------------------------------ the numbers
Idx == {1, 2}
Grid == {<<a, b>> : a \in 0..GridMax, b \in 0..GridMax}
NoPoint == <<>>

Abs(n) == IF n < 0 THEN -n ELSE n

\* a float that is either finite (an integer here) or +infinity
Fin(n) == [inf |-> FALSE, val |-> n]
Inf == [inf |-> TRUE, val |-> 0]

\* rationals <<n, d>>, d > 0
Zero == <<0, 1>>
RatAdd(p, q) == <<p[1] * q[2] + q[1] * p[2], p[2] * q[2]>>
\* n > q, n < q, n < -q for an integer n and a rational q
IntGtRat(n, q) == n * q[2] > q[1]
IntLtRat(n, q) == n * q[2] < q[1]
IntLtNegRat(n, q) == n * q[2] < -q[1]

Dot(a, b) == a[1] * b[1] + a[2] * b[2]

\* ------------------------------------------------ termination conditions
NORMAL == "NORMAL"
INFEASIBLE == "INFEASIBLE"
NONOPTIMAL == "NONOPTIMAL"
NoResults == "none"

\* --------------------------------------------------------------- options
Thresholds == {<<1, 100>>, <<3, 2>>}
CutThresholds == {<<1, 1000>>, <<5, 1>>}
Tolerances == {<<0, 1>>, <<1, 2>>}
Generators == {"create_cuts_normal_vector"}
Tighteners == {"do_not_tighten", "returns_new_model"}
PostProcessors == {"back_off_constraint_with_calculated_cut_violation",
                   "back_off_constraint_by_fixed_tolerance", "None"}

\* the two thresholds set to the same value
EqualThresholds ==
    [minimum_improvement_threshold |-> <<1, 1>>,
     cut_filtering_threshold |-> <<1, 1>>,
     back_off_problem_tolerance |-> <<0, 1>>,
     create_cuts |-> "create_cuts_normal_vector",
     post_process_cut |-> "None",
     tighten_relaxation |-> "do_not_tighten"]

\* The tighten_relaxation callback is independent of the other options; a
\* callback other than the default is paired with one setting of them.
Configs == {c \in [minimum_improvement_threshold : Thresholds,
                   cut_filtering_threshold : CutThresholds,
                   back_off_problem_tolerance : Tolerances,
                   create_cuts : Generators,
                   post_process_cut : PostProcessors,
                   tighten_relaxation : Tighteners] :
               \/ c.tighten_relaxation = "do_not_tighten"
               \/ /\ c.minimum_improvement_threshold = <<1, 100>>
                  /\ c.cut_filtering_threshold = <<1, 1000>>
                  /\ c.back_off_problem_tolerance = <<0, 1>>
                  /\ c.post_process_cut = "None"}
           \cup {EqualThresholds}

\* ------------------------------------------------------ program instances
Senses == {"minimize", "maximize"}
Instances == {i \in [has_objective : BOOLEAN, sense : Senses,
                     c : {<<1, 1>>},
                     lo : Grid, hi : Grid] :
                 /\ i.lo[1] <= i.hi[1]
                 /\ i.lo[2] <= i.hi[2]
                 /\ i.lo[2] = i.lo[1]}

NoConfig == [minimum_improvement_threshold |-> Zero,
             cut_filtering_threshold |-> Zero,
             back_off_problem_tolerance |-> Zero,
             create_cuts |-> "None", post_process_cut |-> "None",
             tighten_relaxation |-> "do_not_tighten"]
NoInstance == [has_objective |-> FALSE, sense |-> "minimize", c |-> <<0, 0>>,
               lo |-> <<0, 0>>, hi |-> <<0, 0>>]

VARIABLES
    pc,            \* position in _apply_to / _generate_cuttingplanes
    err,           \* the exception that left _apply_to, or "none"
    exit_state,    \* ITERATING, CONVERGED, STALLED, SOLVE_FAILED
    config,        \* self._config
    inst,          \* the program the transformation is applied to
    relaxed,       \* the program's integer variables are relaxed
    name_buffer,   \* NAME_BUFFER: the variables with a cached name
    cuts,          \* transBlock_rBigM.cuts: index -> cut
    gen_cuts,      \* the local "cuts": what create_cuts returned
    x_rbigm,       \* values of the relaxed big-M variables
    x_star,        \* transBlock_rHull.xstar
    x_hull,        \* values of the hull variables
    results,       \* the local "results"
    rBigM_objVal,
    prev_obj,
    improving,
    sep_active,    \* transBlock_rHull.separation_objective is active
    infeas_obj,    \* transBlock_rHull.infeasibility_objective exists
    src_obj_active,\* an objective of the source program is active on rHull
    round,         \* history: the number of the current round
    solves,        \* history: solver invocations of this call
    hull_status,   \* history: how this round's separation solve terminated
    backoff_status,\* history: how the last back-off solve terminated
    gen_round,     \* history: the round create_cuts was last invoked in
    warnings,      \* history: number of warnings the back-off logged
    todo,          \* the cuts of gen_cuts the "for cut in cuts" loop has left
    cut_number,    \* the local "cut_number" of the loop body
    hull_of,       \* the model instance_rHull is the hull reformulation of
    hull_cons,     \* the active constraints of instance_rHull, in the
                   \* deterministic order, as create_cuts_fme walks them
    x_disagg,      \* values of the disaggregated variables of instance_rHull
    fme            \* the locals of create_cuts_fme

vars == <<pc, err, exit_state, config, inst, relaxed, name_buffer, cuts,
          gen_cuts, x_rbigm, x_star, x_hull, results, rBigM_objVal, prev_obj,
          improving, sep_active, infeas_obj, src_obj_active, round, solves,
          hull_status, backoff_status, gen_round, warnings, todo, cut_number,
          hull_of, hull_cons, x_disagg, fme>>

\* what only create_cuts_fme reads or writes
fvars == <<hull_cons, x_disagg, fme>>

\* ------------------------------------------------------------------- cuts
\* A cut is a constraint over the relaxed big-M variables with the body
\* coef . x + const + pad  and one bound: sense "ge" is  bound <= body  (the
\* constraint's lower), sense "le" is  body <= bound  (its upper).
\* "pad" is what the post-processor added to the body (cut._body += ...).
BodyAt(cut, x) == Dot(cut.coef, x) + cut.const
CutSatisfied(cut, x) ==
    LET lhs == (BodyAt(cut, x) - cut.bound) * cut.pad[2] + cut.pad[1]
    IN  IF cut.sense = "ge" THEN lhs >= 0 ELSE lhs <= 0

NoneCuts == [isNone |-> TRUE, items |-> <<>>]
ListOf(items) == [isNone |-> FALSE, items |-> items]

\* a cut through x* instead of through the hull point
NormalVectorCutThroughXStar(xh, xs) ==
    [sense |-> "ge",
     coef |-> <<xh[1] - xs[1], xh[2] - xs[2]>>,
     const |-> -((xh[1] - xs[1]) * xs[1] + (xh[2] - xs[2]) * xs[2]),
     bound |-> 0,
     pad |-> Zero]

\* create_cuts_normal_vector: the body is the sum over the triples of
\* (x_hull.value - x_star.value) * (x_rbigm - x_hull.value); its value is
\* taken at the current values xr of the relaxed big-M variables.
NormalVectorCut(xh, xs) ==
    [sense |-> "ge",
     coef |-> <<xh[1] - xs[1], xh[2] - xs[2]>>,
     const |-> -((xh[1] - xs[1]) * xh[1] + (xh[2] - xs[2]) * xh[2]),
     bound |-> 0,
     pad |-> Zero]

\* a cut also when the body is exactly -TOL
create_cuts_normal_vector_at_TOL(xr, xh, xs, TOL) ==
    LET cutexpr == NormalVectorCut(xh, xs)
    IN  IF BodyAt(cutexpr, xr) * TOL[2] <= -TOL[1]
        THEN ListOf(<<cutexpr>>)
        ELSE NoneCuts

\* Lines 233-247.
create_cuts_normal_vector(xr, xh, xs, TOL) ==
    LET cutexpr == NormalVectorCut(xh, xs)
    IN  IF IntLtNegRat(BodyAt(cutexpr, xr), TOL)
        THEN ListOf(<<cutexpr>>)
        ELSE NoneCuts

\* every cut stored at index 0
NextCutNumberZero(store) == 0

\* len(transBlock_rBigM.cuts)
NextCutNumber(store) == Cardinality(DOMAIN store)

\* a store that keeps only the cut just added
StoreAddForgets(store, n, entry) == [k \in {n} |-> entry]

\* transBlock_rBigM.cuts.add(cut_number, cut)
StoreAdd(store, n, entry) ==
    [k \in (DOMAIN store) \cup {n} |-> IF k = n THEN entry ELSE store[k]]

\* ------------------------------------------------------- improvement test
\* obj_diff = prev_obj - rBigM_objVal
ObjDiff(prev, cur) == IF prev.inf THEN Inf ELSE Fin(prev.val - cur)

\* obj_diff/prev_obj raises ZeroDivisionError
ImprovingRaises(prev, cur) ==
    /\ ~ObjDiff(prev, cur).inf
    /\ ~(Abs(cur) < 1)
    /\ prev.val = 0

\* the relative difference taken against the current objective
ImprovingByCurrent(prev, cur, epsilon) ==
    LET obj_diff == ObjDiff(prev, cur)
    IN  \/ obj_diff.inf
        \/ IF Abs(cur) < 1
           THEN IntGtRat(Abs(obj_diff.val), epsilon)
           ELSE Abs(obj_diff.val) * epsilon[2] > epsilon[1] * Abs(cur)

\* improving = math.isinf(obj_diff) or
\*     (abs(obj_diff) > epsilon if abs(rBigM_objVal) < 1
\*      else abs(obj_diff/prev_obj) > epsilon)
Improving(prev, cur, epsilon) ==
    LET obj_diff == ObjDiff(prev, cur)
    IN  \/ obj_diff.inf
        \/ IF Abs(cur) < 1
           THEN IntGtRat(Abs(obj_diff.val), epsilon)
           ELSE Abs(obj_diff.val) * epsilon[2] > epsilon[1] * Abs(prev.val)

\* a test for an exactly zero separation objective
SeparationZero(sepobj, epsilon) == sepobj = 0

\* abs(value(transBlock_rHull.separation_objective)) < epsilon
SeparationConverged(sepobj, epsilon) == IntLtRat(Abs(sepobj), epsilon)

\* a break on a missing cut only
StallBreakOnNone(gcuts, imp) == gcuts.isNone

\* "if cuts is None or not improving: break"
StallBreak(gcuts, imp) == gcuts.isNone \/ ~imp

\* ------------------------------------------------------------ back-off
\* the signed val added to the body
BackOffPadSigned(objval, TOL) ==
    LET val == <<objval * TOL[2] - TOL[1], TOL[2]>>
    IN  IF val[1] <= 0 THEN val ELSE Zero

\* val = value(infeasibility_objective) - TOL; if val <= 0 the body gets
\* abs(val); the result is the amount added to the body.
BackOffPad(objval, TOL) ==
    LET val == <<objval * TOL[2] - TOL[1], TOL[2]>>
    IN  IF val[1] <= 0 THEN <<Abs(val[1]), val[2]>> ELSE Zero

\* ------------------------------------------- the hull relaxation, for FME
\* rHull_vars: the hull copies of the two variables of var_info (1, 2) and
\* the disaggregated variables (3, 4).
HullVars == 1..4
DisaggregatedVars == {3, 4}
NoBound == <<>>
Dot4(a, b) == a[1] * b[1] + a[2] * b[2] + a[3] * b[3] + a[4] * b[4]
Point4(xh, d) == <<xh[1], xh[2], d[1], d[2]>>

\* A constraint of instance_rHull: lower <= body <= upper with the body
\* (coef . x)^deg; a missing bound is NoBound, a present one <<value>>;
\* "disagg" says that it is in disaggregation_constraints.
ConsBody(con, p) ==
    IF con.deg = 1 THEN Dot4(con.coef, p)
    ELSE Dot4(con.coef, p) * Dot4(con.coef, p)

\* differentiate(f, wrt_list=rHull_vars), evaluated at p (lines 130-131)
Gradient(con, p) ==
    IF con.deg = 1 THEN con.coef
    ELSE [j \in HullVars |-> 2 * Dot4(con.coef, p) * con.coef[j]]

\* the constraints every hull relaxation of the model has: the hull of
\* [x1 = lo1] \/ [x1 = hi1] over lo2 <= x2 <= hi2 (an equality when
\* lo2 = hi2), and the disaggregation constraint x1 = v1 + v2
HullConstraints(i) ==
    << [coef |-> <<1, 0, 0, 0>>, deg |-> 1, lower |-> <<i.lo[1]>>,
        upper |-> NoBound, disagg |-> FALSE],
       [coef |-> <<1, 0, 0, 0>>, deg |-> 1, lower |-> NoBound,
        upper |-> <<i.hi[1]>>, disagg |-> FALSE],
       [coef |-> <<0, 1, 0, 0>>, deg |-> 1, lower |-> <<i.lo[2]>>,
        upper |-> <<i.hi[2]>>, disagg |-> FALSE],
       [coef |-> <<1, 0, -1, -1>>, deg |-> 1, lower |-> <<0>>,
        upper |-> <<0>>, disagg |-> TRUE] >>

\* constraints over the disaggregated variables that a disjunct may carry:
\* v1 <= 1,  x2 - v1 <= 0,  v2^2 <= 1
DisjunctConstraints ==
    << [coef |-> <<0, 0, 1, 0>>, deg |-> 1, lower |-> NoBound,
        upper |-> <<1>>, disagg |-> FALSE],
       [coef |-> <<0, 1, -1, 0>>, deg |-> 1, lower |-> NoBound,
        upper |-> <<0>>, disagg |-> FALSE],
       [coef |-> <<0, 0, 0, 1>>, deg |-> 2, lower |-> NoBound,
        upper |-> <<1>>, disagg |-> FALSE] >>

\* the subsequence of s at the indices in S
RECURSIVE Pick(_, _, _)
Pick(s, S, k) ==
    IF k > Len(s) THEN <<>>
    ELSE (IF k \in S THEN <<s[k]>> ELSE <<>>) \o Pick(s, S, k + 1)

\* ------------------------------------------------------- create_cuts_fme
\* a multiplier that stops at the first bound found tight
constraint_tight_first_bound(con, p) ==
    LET val == ConsBody(con, p)
    IN  IF con.lower # NoBound /\ con.lower[1] >= val THEN -1
        ELSE IF con.upper # NoBound /\ con.upper[1] <= val THEN 1
        ELSE 0

\* a multiplier that counts a bound only when the body is beyond it
constraint_tight_beyond(con, p) ==
    LET val == ConsBody(con, p)
    IN  (IF con.lower # NoBound /\ con.lower[1] > val THEN -1 ELSE 0)
            + (IF con.upper # NoBound /\ con.upper[1] < val THEN 1 ELSE 0)

\* _constraint_tight (lines 65-78)
constraint_tight(con, p) ==
    LET val == ConsBody(con, p)
    IN  (IF con.lower # NoBound /\ con.lower[1] >= val THEN -1 ELSE 0)
            + (IF con.upper # NoBound /\ con.upper[1] <= val THEN 1 ELSE 0)

\* An entry of conslist: lower <= coef . x + const <= upper over the hull
\* variables; "src" is the index in hull_cons of the constraint it was made
\* from (0: the composite cut).
\* constraint.expr (lines 135, 144)
ExprOf(con, k) ==
    [src |-> k, coef |-> con.coef, const |-> 0,
     lower |-> con.lower, upper |-> con.upper]

\* _get_linear_approximation_expr (lines 80-85):
\* -sum(normal_vec[j]*x[j]) >= -sum(normal_vec[j]*x[j].value)
LinearApproximationExpr(normal_vec, p, k) ==
    [src |-> k, coef |-> [j \in HullVars |-> -normal_vec[j]], const |-> 0,
     lower |-> <<-Dot4(normal_vec, p)>>, upper |-> NoBound]

\* a loop body that takes the tight constraints only
TightStepTightOnly(con, k, p, acc) ==
    LET multiplier == constraint_tight(con, p)
        normal_vec == [j \in HullVars |-> multiplier * Gradient(con, p)[j]]
    IN  IF multiplier # 0
        THEN [conslist |-> Append(acc.conslist,
                               IF con.deg = 1 THEN ExprOf(con, k)
                               ELSE LinearApproximationExpr(normal_vec, p, k)),
              normal_vectors |-> Append(acc.normal_vectors, normal_vec)]
        ELSE acc

\* the body of the loop of lines 122-144 for the k-th constraint
TightStep(con, k, p, acc) ==
    LET multiplier == constraint_tight(con, p)
        normal_vec == [j \in HullVars |-> multiplier * Gradient(con, p)[j]]
    IN  IF multiplier # 0
        THEN [conslist |-> Append(acc.conslist,
                               IF con.deg = 1 THEN ExprOf(con, k)
                               ELSE LinearApproximationExpr(normal_vec, p, k)),
              normal_vectors |-> Append(acc.normal_vectors, normal_vec)]
        ELSE IF con.disagg
        THEN [acc EXCEPT !.conslist = Append(@, ExprOf(con, k))]
        ELSE acc

\* the loop of lines 122-144 from the k-th constraint on
RECURSIVE TightLoop(_, _, _, _)
TightLoop(cons, p, k, acc) ==
    IF k > Len(cons) THEN acc
    ELSE TightLoop(cons, p, k + 1, TightStep(cons[k], k, p, acc))

\* lines 156-157: the componentwise sum of the normal vectors
RECURSIVE SumVectors(_)
SumVectors(vs) ==
    IF vs = <<>> THEN [j \in HullVars |-> 0]
    ELSE [j \in HullVars |-> vs[1][j] + SumVectors(Tail(vs))[j]]

\* Lines 161-176: composite_cutexpr_Hull starts as the int 0 and gets
\* normal[v]*(v - v.value) for every variable; a product with the number 0
\* is the number 0, so with a composite normal of zeros the sum stays the
\* int 0 and is no expression.
CompositeIsConstant(normal) == \A j \in HullVars : normal[j] = 0

\* Line 183, composite_cutexpr_Hull <= 0: the relation
\* sum of normal[v]*(v - v.value) <= 0, or, of the int 0, the bool True
\* (0 <= 0), which a Constraint refuses with ValueError.
CompositeCut(normal, p) ==
    IF CompositeIsConstant(normal) THEN TRUE
    ELSE [src |-> 0, coef |-> normal, const |-> -Dot4(normal, p),
          lower |-> NoBound, upper |-> <<0>>]

\* lines 171-181: do_fme
DoFme(normal) == \E v \in DisaggregatedVars : normal[v] # 0

\* ---- Fourier-Motzkin elimination (contrib.fourier_motzkin_elimination)
\* An inequality is  coef . x >= rhs.  A constraint gives one inequality
\* for each bound it has.
Inequalities(entry) ==
    (IF entry.lower # NoBound
     THEN <<[coef |-> entry.coef, rhs |-> entry.lower[1] - entry.const]>>
     ELSE <<>>)
    \o (IF entry.upper # NoBound
        THEN <<[coef |-> [j \in HullVars |-> -entry.coef[j]],
                rhs |-> entry.const - entry.upper[1]]>>
        ELSE <<>>)

RECURSIVE AllInequalities(_)
AllInequalities(conslist) ==
    IF conslist = <<>> THEN <<>>
    ELSE Inequalities(Head(conslist)) \o AllInequalities(Tail(conslist))

\* the positive combination of a and b in which variable v cancels
Combine(a, b, v) ==
    [coef |-> [j \in HullVars |-> (-b.coef[v]) * a.coef[j] + a.coef[v] * b.coef[j]],
     rhs |-> (-b.coef[v]) * a.rhs + a.coef[v] * b.rhs]

RECURSIVE Pairs(_, _, _, _, _)
Pairs(pos, neg, v, a, b) ==
    IF a > Len(pos) THEN <<>>
    ELSE IF b > Len(neg) THEN Pairs(pos, neg, v, a + 1, 1)
    ELSE <<Combine(pos[a], neg[b], v)>> \o Pairs(pos, neg, v, a, b + 1)

EliminateVar(ineqs, v) ==
    LET HasNone(q) == q.coef[v] = 0
        IsPos(q) == q.coef[v] > 0
        IsNeg(q) == q.coef[v] < 0
    IN  SelectSeq(ineqs, HasNone)
            \o Pairs(SelectSeq(ineqs, IsPos), SelectSeq(ineqs, IsNeg), v, 1, 1)

RECURSIVE EliminateAll(_, _)
EliminateAll(ineqs, V) ==
    IF V = {} THEN ineqs
    ELSE LET v == CHOOSE u \in V : \A w \in V : u <= w
         IN  EliminateAll(EliminateVar(ineqs, v), V \ {v})

\* the projected constraints: lb <= body, without the rows in which no
\* variable is left
FourierMotzkin(conslist, V) ==
    LET NonTrivial(q) == \E j \in HullVars : q.coef[j] # 0
        rows == SelectSeq(EliminateAll(AllInequalities(conslist), V), NonTrivial)
    IN  [k \in 1..Len(rows) |->
            [src |-> 0, coef |-> rows[k].coef, const |-> 0,
             lower |-> <<rows[k].rhs>>, upper |-> NoBound]]

\* lines 185-197: projected_constraints
Projected(conslist, do_fme, V) ==
    IF do_fme THEN FourierMotzkin(conslist, V)
    ELSE <<conslist[Len(conslist)]>>

\* _get_constraint_exprs (lines 58-63): cons.expr with each hull variable of
\* var_info replaced by its relaxed big-M variable.  cons.expr of a
\* constraint with a lower bound only is  lower <= body, of one with an
\* upper bound only  body <= upper.
TranslateOne(entry) ==
    IF entry.upper = NoBound
    THEN [sense |-> "ge", coef |-> <<entry.coef[1], entry.coef[2]>>,
          const |-> entry.const, bound |-> entry.lower[1], pad |-> Zero]
    ELSE [sense |-> "le", coef |-> <<entry.coef[1], entry.coef[2]>>,
          const |-> entry.const, bound |-> entry.upper[1], pad |-> Zero]
get_constraint_exprs(constraints) ==
    [k \in 1..Len(constraints) |-> TranslateOne(constraints[k])]

\* value(cut.args[0]) - value(cut.args[1]) (line 223)
CutOff(cut, xr) ==
    IF cut.sense = "ge" THEN cut.bound - BodyAt(cut, xr)
    ELSE BodyAt(cut, xr) - cut.bound

\* a selection that stops at the first acceptable cut it meets
RECURSIVE SelectFirstMet(_, _, _, _, _, _)
SelectFirstMet(cs, i, xr, thr, best, best_cut) ==
    IF i = 0 THEN best_cut
    ELSE IF CutSatisfied(cs[i], xr)
    THEN SelectFirstMet(cs, i - 1, xr, thr, best, best_cut)
    ELSE IF IntGtRat(CutOff(cs[i], xr), thr)
    THEN <<cs[i]>>
    ELSE SelectFirstMet(cs, i - 1, xr, thr, best, best_cut)

\* lines 208-227: the loop over the candidates from the last to the first;
\* best_cut is <<>> for None
RECURSIVE SelectBest(_, _, _, _, _, _)
SelectBest(cs, i, xr, thr, best, best_cut) ==
    IF i = 0 THEN best_cut
    ELSE IF CutSatisfied(cs[i], xr)
    THEN SelectBest(cs, i - 1, xr, thr, best, best_cut)
    ELSE IF IntGtRat(CutOff(cs[i], xr), thr) /\ CutOff(cs[i], xr) > best
    THEN SelectBest(cs, i - 1, xr, thr, CutOff(cs[i], xr), <<cs[i]>>)
    ELSE SelectBest(cs, i - 1, xr, thr, best, best_cut)

\* lines 228-231
FmeResult(best_cut) == IF best_cut # <<>> THEN ListOf(best_cut) ELSE NoneCuts

\* --------------------------------------------------------- the solver
HullBox(i) == {x \in Grid : /\ i.lo[1] <= x[1] /\ x[1] <= i.hi[1]
                            /\ i.lo[2] <= x[2] /\ x[2] <= i.hi[2]}
\* the feasible points of the disjunctive program: [x1 = lo1] \/ [x1 = hi1]
FeasibleGDP(i) == {x \in HullBox(i) : x[1] = i.lo[1] \/ x[1] = i.hi[1]}

FeasibleBigM(store) ==
    {x \in Grid : \A k \in DOMAIN store : CutSatisfied(store[k], x)}
ObjValue(i, x) == Dot(i.c, x)
\* every objective taken as one to minimize
NoWorseMinimize(i, a, b) == a <= b

\* the sense of the active objective rBigM_obj
NoWorse(i, a, b) == IF i.sense = "minimize" THEN a <= b ELSE a >= b
OptimalBigM(i, store) ==
    {x \in FeasibleBigM(store) :
        \A y \in FeasibleBigM(store) : NoWorse(i, ObjValue(i, x), ObjValue(i, y))}

\* opt.solve(instance_rBigM): an optimum; a solve stopped early, which
\* leaves some feasible point or loads nothing (the values stay x0); or, of
\* an infeasible problem, a failure that loads nothing
SolveBigMOutcomes(i, store, x0) ==
    {[st |-> NORMAL, x |-> x] : x \in OptimalBigM(i, store)}
        \cup {[st |-> NONOPTIMAL, x |-> x] : x \in FeasibleBigM(store) \cup {x0}}
        \cup (IF FeasibleBigM(store) = {}
              THEN {[st |-> INFEASIBLE, x |-> x0]} ELSE {})

\* the separation objective: sum over the triples of (x_hull - x_star)**2
SeparationObjective(xh, xs) ==
    (xh[1] - xs[1]) * (xh[1] - xs[1]) + (xh[2] - xs[2]) * (xh[2] - xs[2])
OptimalSeparation(i, xs) ==
    {x \in HullBox(i) :
        \A y \in HullBox(i) :
            SeparationObjective(x, xs) <= SeparationObjective(y, xs)}

\* opt.solve(instance_rHull) with the separation objective: the optimum, or
\* a solve stopped early, which leaves some hull point or the initial point
SolveHullOutcomes(i, xs) ==
    {[st |-> NORMAL, x |-> x] : x \in OptimalSeparation(i, xs)}
        \cup {[st |-> NONOPTIMAL, x |-> x] : x \in HullBox(i) \cup {xs}}

\* the infeasibility objective: the cut's body over the hull variables,
\* minimized (the default sense of an Objective)
OptimalBackOff(i, cut) ==
    {x \in HullBox(i) : \A y \in HullBox(i) : BodyAt(cut, x) <= BodyAt(cut, y)}

\* opt.solve(instance_rHull) with the infeasibility objective: an optimum,
\* or a failure that loads no solution (the values stay x0)
SolveBackOffOutcomes(i, cut, x0) ==
    {[st |-> NORMAL, x |-> x] : x \in OptimalBackOff(i, cut)}
        \cup {[st |-> NONOPTIMAL, x |-> x0]}

\* the locals of create_cuts_fme before the call
NoFme == [at |-> "entry", conslist |-> <<>>, normal_vectors |-> <<>>,
          composite_normal |-> <<>>, do_fme |-> FALSE,
          vars_to_eliminate |-> {}, projected |-> <<>>, result |-> NoneCuts]

\* ------------------------------------------------------------------ Init
Init ==
    /\ pc = "idle"
    /\ err = "none"
    /\ exit_state = "ITERATING"
    /\ config = NoConfig
    /\ inst = NoInstance
    /\ relaxed = FALSE
    /\ name_buffer = {}
    /\ cuts = <<>>
    /\ gen_cuts = NoneCuts
    /\ x_rbigm = NoPoint
    /\ x_star = NoPoint
    /\ x_hull = NoPoint
    /\ results = NoResults
    /\ rBigM_objVal = 0
    /\ prev_obj = Inf
    /\ improving = TRUE
    /\ sep_active = FALSE
    /\ infeas_obj = FALSE
    /\ src_obj_active = FALSE
    /\ round = 0
    /\ solves = 0
    /\ hull_status = NoResults
    /\ backoff_status = NoResults
    /\ gen_round = 0
    /\ warnings = 0
    /\ todo = <<>>
    /\ cut_number = 0
    /\ hull_of = "none"
    /\ hull_cons = <<>>
    /\ x_disagg = NoPoint
    /\ fme = NoFme

\* --------------------------------------------------------------- actions
\* Line 519: tighter_instance = self._config.tighten_relaxation(instance);
\* do_not_tighten returns its argument, another callback may return a new
\* model.
TightenResult(cfg) ==
    IF cfg.tighten_relaxation = "do_not_tighten"
    THEN "instance" ELSE "tighter_instance"

\* Line 520: instance_rHull = hullRelaxation.create_using(instance);
\* tighter_instance is not used.
HullSource(cfg) == "instance"

\* no test for a missing objective
MissingObjectiveUnchecked(i) == FALSE

\* Lines 653-655: "rBigM_obj is None", no active objective in the model.
MissingObjective(i) == ~i.has_objective

\* _apply_to, lines 465-475, _setup_subproblems, and the part of
\* _generate_cuttingplanes before the loop (lines 638-667).
Apply ==
    /\ UNCHANGED fvars
    /\ pc = "idle"
    /\ IF name_buffer # {}
       THEN \* assert not NAME_BUFFER
            /\ pc' = "raised"
            /\ err' = "AssertionError"
            /\ UNCHANGED <<exit_state, config, inst, relaxed, name_buffer,
                           cuts, gen_cuts, x_rbigm, x_star, x_hull, results,
                           rBigM_objVal, prev_obj, improving, sep_active,
                           infeas_obj, src_obj_active, round, solves,
                           hull_status, backoff_status, gen_round, warnings,
                           todo, cut_number, hull_of>>
       ELSE \E cfg \in Configs, i \in Instances :
            /\ config' = cfg
            /\ inst' = i
            \* _setup_subproblems: the cut store, the relaxations, the
            \* separation objective (all other objectives deactivated)
            /\ cuts' = <<>>
            /\ relaxed' = TRUE
            /\ hull_of' = HullSource(cfg)
            /\ x_rbigm' = NoPoint
            /\ x_star' = NoPoint
            /\ x_hull' = NoPoint
            /\ src_obj_active' = FALSE
            /\ sep_active' = TRUE
            /\ infeas_obj' = FALSE
            \* _generate_cuttingplanes, lines 642-645
            /\ improving' = TRUE
            /\ prev_obj' = Inf
            /\ gen_cuts' = NoneCuts
            /\ results' = NoResults
            /\ rBigM_objVal' = 0
            /\ round' = 0
            /\ solves' = 0
            /\ hull_status' = NoResults
            /\ backoff_status' = NoResults
            /\ gen_round' = 0
            /\ warnings' = 0
            /\ todo' = <<>>
            /\ cut_number' = 0
            /\ exit_state' = "ITERATING"
            /\ UNCHANGED name_buffer
            /\ IF MissingObjective(i)
               THEN \* raise GDP_Error (lines 655-657)
                    /\ pc' = "raised"
                    /\ err' = "GDP_Error"
               ELSE /\ pc' = "solve_rBigM"
                    /\ err' = "none"

\* the copy of x* made before the termination condition is looked at
BigMFailedAfterCopy(o) ==
    /\ pc' = "returned"
    /\ exit_state' = "SOLVE_FAILED"
    /\ relaxed' = FALSE
    /\ name_buffer' = {}
    /\ x_star' = o.x
    /\ x_hull' = o.x
    /\ UNCHANGED <<err, rBigM_objVal, improving>>

\* a return that skips what _apply_to does after the loop
BigMFailedNoCleanup(o) ==
    /\ pc' = "returned"
    /\ exit_state' = "SOLVE_FAILED"
    /\ UNCHANGED <<relaxed, name_buffer>>
    /\ UNCHANGED <<err, rBigM_objVal, x_star, x_hull, improving>>

\* Lines 672-676: the rBigM solve did not terminate normally: return, and
\* _apply_to goes on with lines 483-487.
BigMFailed(o) ==
    /\ pc' = "returned"
    /\ exit_state' = "SOLVE_FAILED"
    /\ relaxed' = FALSE
    /\ name_buffer' = {}
    /\ UNCHANGED <<err, rBigM_objVal, x_star, x_hull, improving>>

\* Lines 669-698: solve rBigM, copy x*, compare the objectives.
SolveBigM ==
    /\ UNCHANGED <<hull_of, fvars>>
    /\ pc = "solve_rBigM"
    /\ improving
    /\ round < MaxRounds
    /\ \E o \in SolveBigMOutcomes(inst, cuts, x_rbigm) :
        /\ round' = round + 1
        /\ solves' = solves + 1
        /\ results' = o.st
        /\ x_rbigm' = o.x
        /\ hull_status' = NoResults
        /\ IF o.st # NORMAL
           THEN BigMFailed(o)
           ELSE /\ rBigM_objVal' = ObjValue(inst, o.x)
                /\ x_star' = o.x
                /\ x_hull' = o.x
                /\ name_buffer' = Idx
                /\ UNCHANGED <<exit_state, relaxed>>
                /\ IF ImprovingRaises(prev_obj, ObjValue(inst, o.x))
                   THEN /\ pc' = "raised"
                        /\ err' = "ZeroDivisionError"
                        /\ UNCHANGED improving
                   ELSE /\ pc' = "solve_rHull"
                        /\ improving' = Improving(prev_obj, ObjValue(inst, o.x),
                                            config.minimum_improvement_threshold)
                        /\ UNCHANGED err
    /\ UNCHANGED <<config, inst, cuts, gen_cuts, prev_obj, sep_active,
                   infeas_obj, src_obj_active, backoff_status, gen_round,
                   warnings, todo, cut_number>>

\* Lines 700-720: solve the separation problem, test the separation
\* objective.  The value returned by this solve is not kept: line 702 tests
\* "results", which still holds the outcome of the rBigM solve.
SolveHull ==
    /\ UNCHANGED <<hull_of, fvars>>
    /\ pc = "solve_rHull"
    /\ \E o \in SolveHullOutcomes(inst, x_star) :
        /\ solves' = solves + 1
        /\ hull_status' = o.st
        /\ x_hull' = o.x
        /\ IF results # NORMAL
           THEN /\ pc' = "returned"
                /\ exit_state' = "SOLVE_FAILED"
                /\ relaxed' = FALSE
                /\ name_buffer' = {}
           ELSE IF SeparationConverged(SeparationObjective(o.x, x_star),
                                       config.minimum_improvement_threshold)
           THEN \* break (line 720), then _apply_to lines 483-487
                /\ pc' = "returned"
                /\ exit_state' = "CONVERGED"
                /\ relaxed' = FALSE
                /\ name_buffer' = {}
           ELSE /\ pc' = "create_cuts"
                /\ name_buffer' = Idx
                /\ UNCHANGED <<exit_state, relaxed>>
    /\ UNCHANGED <<err, config, inst, cuts, gen_cuts, x_rbigm, x_star,
                   results, rBigM_objVal, prev_obj, improving, sep_active,
                   infeas_obj, src_obj_active, round, backoff_status,
                   gen_round, warnings, todo, cut_number>>

\* Lines 722-733: call the cut generator, stop without a cut or without
\* improvement.
CreateCuts ==
    /\ UNCHANGED <<hull_of, fvars>>
    /\ pc = "create_cuts"
    /\ config.create_cuts = "create_cuts_normal_vector"
    /\ LET got == create_cuts_normal_vector(x_rbigm, x_hull, x_star,
                                            config.cut_filtering_threshold)
       IN  /\ gen_cuts' = got
           /\ gen_round' = round
           /\ IF StallBreak(got, improving)
              THEN \* break (line 733), then _apply_to lines 483-487
                   /\ pc' = "returned"
                   /\ exit_state' = "STALLED"
                   /\ relaxed' = FALSE
                   /\ name_buffer' = {}
                   /\ UNCHANGED todo
              ELSE /\ pc' = IF got.items = <<>> THEN "end_round" ELSE "add_cut"
                   /\ todo' = got.items
                   /\ UNCHANGED <<exit_state, relaxed, name_buffer>>
    /\ UNCHANGED <<err, config, inst, cuts, x_rbigm, x_star, x_hull, results,
                   rBigM_objVal, prev_obj, improving, sep_active, infeas_obj,
                   src_obj_active, round, solves, hull_status, backoff_status,
                   warnings, cut_number>>

\* what follows the body of "for cut in cuts": the next cut, or line 748
AfterCut(rest) == IF rest = <<>> THEN "end_round" ELSE "add_cut"

\* Lines 736-738: store the cut at the next index.  The fields "round" and
\* "post" of a stored cut are history: the round that stored it and the
\* number of times it was handed to the post-processor.
AddCut ==
    /\ UNCHANGED <<hull_of, fvars>>
    /\ pc = "add_cut"
    /\ todo # <<>>
    /\ LET n == NextCutNumber(cuts)
           cut == Head(todo)
       IN  /\ cut_number' = n
           /\ cuts' = StoreAdd(cuts, n, [sense |-> cut.sense, coef |-> cut.coef,
                                         const |-> cut.const,
                                         bound |-> cut.bound, pad |-> cut.pad,
                                         round |-> round, post |-> 0])
    /\ IF config.post_process_cut = "None"
       THEN /\ todo' = Tail(todo)
            /\ pc' = AfterCut(Tail(todo))
       ELSE /\ pc' = "post_process"
            /\ UNCHANGED todo
    /\ UNCHANGED <<err, exit_state, config, inst, relaxed, name_buffer,
                   gen_cuts, x_rbigm, x_star, x_hull, results, rBigM_objVal,
                   prev_obj, improving, sep_active, infeas_obj,
                   src_obj_active, round, solves, hull_status, backoff_status,
                   gen_round, warnings>>

\* back_off_constraint_by_fixed_tolerance (lines 283-286), called at
\* lines 739-746
BackOffFixed ==
    /\ UNCHANGED <<hull_of, fvars>>
    /\ pc = "post_process"
    /\ config.post_process_cut = "back_off_constraint_by_fixed_tolerance"
    /\ cuts' = [cuts EXCEPT ![cut_number] =
                   [@ EXCEPT !.pad = RatAdd(@, config.back_off_problem_tolerance),
                             !.post = @ + 1]]
    /\ todo' = Tail(todo)
    /\ pc' = AfterCut(Tail(todo))
    /\ UNCHANGED <<err, exit_state, config, inst, relaxed, name_buffer,
                   gen_cuts, x_rbigm, x_star, x_hull, results, rBigM_objVal,
                   prev_obj, improving, sep_active, infeas_obj,
                   src_obj_active, round, solves, hull_status, backoff_status,
                   gen_round, warnings, cut_number>>

\* a restore that reactivates the separation objective and leaves the
\* infeasibility objective on the block
restore_objective_keeps_infeasibility ==
    /\ sep_active' = TRUE
    /\ infeas_obj' = TRUE

\* _restore_objective (lines 249-251)
restore_objective ==
    /\ sep_active' = TRUE
    /\ infeas_obj' = FALSE

\* back_off_constraint_with_calculated_cut_violation (lines 253-281), called
\* at lines 739-746.  On an abnormal solve line 273 names "orig_obj", which
\* is not defined: NameError, raised before _restore_objective is entered.
BackOffCalculated ==
    /\ UNCHANGED <<hull_of, fvars>>
    /\ pc = "post_process"
    /\ config.post_process_cut =
           "back_off_constraint_with_calculated_cut_violation"
    /\ \E o \in SolveBackOffOutcomes(inst, cuts[cut_number], x_hull) :
        /\ solves' = solves + 1
        /\ backoff_status' = o.st
        /\ x_hull' = o.x
        /\ IF o.st # NORMAL
           THEN /\ warnings' = warnings + 1
                /\ cuts' = [cuts EXCEPT ![cut_number].post = @ + 1]
                \* separation objective deactivated (line 261), the
                \* infeasibility objective added (line 263), neither undone
                /\ sep_active' = FALSE
                /\ infeas_obj' = TRUE
                /\ pc' = "raised"
                /\ err' = "NameError"
                /\ UNCHANGED todo
           ELSE /\ cuts' = [cuts EXCEPT ![cut_number] =
                       [@ EXCEPT !.pad = RatAdd(@,
                                     BackOffPad(BodyAt(cuts[cut_number], o.x),
                                                config.back_off_problem_tolerance)),
                                 !.post = @ + 1]]
                /\ restore_objective
                /\ todo' = Tail(todo)
                /\ pc' = AfterCut(Tail(todo))
                /\ UNCHANGED <<err, warnings>>
    /\ UNCHANGED <<exit_state, config, inst, relaxed, name_buffer, gen_cuts,
                   x_rbigm, x_star, results, rBigM_objVal, prev_obj,
                   improving, src_obj_active, round, hull_status, gen_round,
                   cut_number>>

\* Line 748, then back to the loop test.
EndRound ==
    /\ UNCHANGED <<hull_of, fvars>>
    /\ pc = "end_round"
    /\ prev_obj' = Fin(rBigM_objVal)
    /\ pc' = "solve_rBigM"
    /\ UNCHANGED <<err, exit_state, config, inst, relaxed, name_buffer, cuts,
                   gen_cuts, x_rbigm, x_star, x_hull, results, rBigM_objVal,
                   improving, sep_active, infeas_obj, src_obj_active, round,
                   solves, hull_status, backoff_status, gen_round, warnings,
                   todo, cut_number>>

\* The caller goes on after _apply_to returned or raised: the models and the
\* locals of that call are dropped, the module-level NAME_BUFFER stays as
\* the call left it.
Leave ==
    /\ pc \in {"returned", "raised"}
    /\ pc' = "idle"
    /\ err' = "none"
    /\ exit_state' = "ITERATING"
    /\ config' = NoConfig
    /\ inst' = NoInstance
    /\ relaxed' = FALSE
    /\ cuts' = <<>>
    /\ gen_cuts' = NoneCuts
    /\ x_rbigm' = NoPoint
    /\ x_star' = NoPoint
    /\ x_hull' = NoPoint
    /\ results' = NoResults
    /\ rBigM_objVal' = 0
    /\ prev_obj' = Inf
    /\ improving' = TRUE
    /\ sep_active' = FALSE
    /\ infeas_obj' = FALSE
    /\ src_obj_active' = FALSE
    /\ round' = 0
    /\ solves' = 0
    /\ hull_status' = NoResults
    /\ backoff_status' = NoResults
    /\ gen_round' = 0
    /\ warnings' = 0
    /\ todo' = <<>>
    /\ cut_number' = 0
    /\ hull_of' = "none"
    /\ UNCHANGED fvars
    /\ UNCHANGED name_buffer

Next ==
    \/ Apply
    \/ Leave
    \/ SolveBigM
    \/ SolveHull
    \/ CreateCuts
    \/ AddCut
    \/ BackOffFixed
    \/ BackOffCalculated
    \/ EndRound

Spec == Init /\ [][Next]_vars

\* ------------------------------------------------- rounds with the FME generator
\* The variables of the driver that create_cuts_fme neither reads nor writes
\* while it runs, and the hull relaxation it reads.
driver_vars == <<pc, err, exit_state, config, inst, relaxed, name_buffer, cuts,
                 gen_cuts, x_rbigm, x_star, x_hull, results, rBigM_objVal,
                 prev_obj, improving, sep_active, infeas_obj, src_obj_active,
                 round, solves, hull_status, backoff_status, gen_round,
                 warnings, todo, cut_number, hull_of>>

FmeGenerators == {"create_cuts_fme", "create_cuts_normal_vector"}
FmeConfigs ==
    {c \in [minimum_improvement_threshold : {<<1, 100>>},
            cut_filtering_threshold : CutThresholds,
            back_off_problem_tolerance : Tolerances,
            create_cuts : FmeGenerators,
            post_process_cut : PostProcessors,
            tighten_relaxation : {"do_not_tighten"}] :
        /\ c.post_process_cut = "None" => c.back_off_problem_tolerance = <<0, 1>>
        /\ c.post_process_cut # "None" => c.cut_filtering_threshold = <<1, 1000>>
        /\ c.create_cuts = "create_cuts_normal_vector" =>
               /\ c.post_process_cut = "None"
               /\ c.cut_filtering_threshold = <<1, 1000>>}

\* The values the separation solve leaves in the disaggregated variables:
\* the disaggregation constraint x1 = v1 + v2 holds up to one grid step (a
\* solver satisfies a constraint within its feasibility tolerance).
DisaggValues(xh) ==
    {d \in Grid : Abs(xh[1] - d[1] - d[2]) <= 1}
\* which of DisjunctConstraints the hull relaxation has: none or one of them
DisjunctChoices == {S \in SUBSET (1..Len(DisjunctConstraints)) : Cardinality(S) <= 1}

\* The state in round 1 at line 722, after the rBigM solve and the
\* separation solve: x* is the optimum of the relaxed big-M problem without
\* cuts, x_hull a point of the hull that did not pass the convergence test.
InitFme ==
    \E cfg \in FmeConfigs, i \in Instances, S \in DisjunctChoices :
      \E xs \in OptimalBigM(i, <<>>), xh \in HullBox(i) :
        \E d \in DisaggValues(xh) :
          /\ ~MissingObjective(i)
          /\ ~SeparationConverged(SeparationObjective(xh, xs),
                                  cfg.minimum_improvement_threshold)
          /\ pc = "create_cuts"
          /\ err = "none"
          /\ exit_state = "ITERATING"
          /\ config = cfg
          /\ inst = i
          /\ relaxed = TRUE
          /\ name_buffer = Idx
          /\ cuts = <<>>
          /\ gen_cuts = NoneCuts
          /\ x_rbigm = xs
          /\ x_star = xs
          /\ x_hull = xh
          /\ results = NORMAL
          /\ rBigM_objVal = ObjValue(i, xs)
          /\ prev_obj = Inf
          /\ improving = Improving(Inf, ObjValue(i, xs),
                                   cfg.minimum_improvement_threshold)
          /\ sep_active = TRUE
          /\ infeas_obj = FALSE
          /\ src_obj_active = FALSE
          /\ round = 1
          /\ solves = 2
          /\ hull_status = IF xh \in OptimalSeparation(i, xs)
                           THEN NORMAL ELSE NONOPTIMAL
          /\ backoff_status = NoResults
          /\ gen_round = 0
          /\ warnings = 0
          /\ todo = <<>>
          /\ cut_number = 0
          /\ hull_of = HullSource(cfg)
          /\ hull_cons = HullConstraints(i) \o Pick(DisjunctConstraints, S, 1)
          /\ x_disagg = d
          /\ fme = NoFme

CalledFme == pc = "create_cuts" /\ config.create_cuts = "create_cuts_fme"

\* the working block made a component of instance_rHull: its constraints
\* become active constraints of the hull relaxation
FmeTightConstraintsOnHull ==
    /\ CalledFme
    /\ fme.at = "entry"
    /\ LET got == TightLoop(hull_cons, Point4(x_hull, x_disagg), 1,
                            [conslist |-> <<>>, normal_vectors |-> <<>>])
       IN  /\ fme' = [fme EXCEPT !.conslist = got.conslist,
                                 !.normal_vectors = got.normal_vectors,
                                 !.result = NoneCuts,
                                 !.at = IF got.normal_vectors = <<>>
                                        THEN "return" ELSE "composite"]
           /\ hull_cons' = hull_cons \o
                   [e \in 1..Len(got.conslist) |-> hull_cons[got.conslist[e].src]]
    /\ UNCHANGED <<driver_vars, x_disagg>>

\* Lines 117-152: the tight constraints and their normal vectors; None
\* when there is no normal vector.
FmeTightConstraints ==
    /\ CalledFme
    /\ fme.at = "entry"
    /\ LET got == TightLoop(hull_cons, Point4(x_hull, x_disagg), 1,
                            [conslist |-> <<>>, normal_vectors |-> <<>>])
       IN  fme' = [fme EXCEPT !.conslist = got.conslist,
                              !.normal_vectors = got.normal_vectors,
                              !.result = NoneCuts,
                              !.at = IF got.normal_vectors = <<>>
                                     THEN "return" ELSE "composite"]
    /\ UNCHANGED <<driver_vars, hull_cons, x_disagg>>

\* Lines 156-183: the composite normal, the cut in the extended space, the
\* variables to eliminate.  When the composite normal is zero, line 183
\* hands the bool True to the Constraint: ValueError, which leaves
\* create_cuts_fme, the loop and _apply_to (lines 483-487 are not reached).
FmeCompositeNormal ==
    /\ CalledFme
    /\ fme.at = "composite"
    /\ LET normal == SumVectors(fme.normal_vectors)
       IN  IF CompositeIsConstant(normal)
           THEN /\ fme' = [fme EXCEPT
                             !.composite_normal = normal,
                             !.vars_to_eliminate = DisaggregatedVars,
                             !.do_fme = DoFme(normal),
                             !.at = "raised"]
                /\ pc' = "raised"
                /\ err' = "ValueError"
           ELSE /\ fme' = [fme EXCEPT
                             !.composite_normal = normal,
                             !.vars_to_eliminate = DisaggregatedVars,
                             !.do_fme = DoFme(normal),
                             !.conslist = Append(@, CompositeCut(normal,
                                                      Point4(x_hull, x_disagg))),
                             !.at = "project"]
                /\ UNCHANGED <<pc, err>>
    /\ UNCHANGED <<exit_state, config, inst, relaxed, name_buffer, cuts,
                   gen_cuts, x_rbigm, x_star, x_hull, results, rBigM_objVal,
                   prev_obj, improving, sep_active, infeas_obj, src_obj_active,
                   round, solves, hull_status, backoff_status, gen_round,
                   warnings, todo, cut_number, hull_of, hull_cons, x_disagg>>

\* Lines 185-197: the projection, or the cut itself.
FmeProject ==
    /\ CalledFme
    /\ fme.at = "project"
    /\ fme' = [fme EXCEPT !.projected = Projected(fme.conslist, fme.do_fme,
                                                  fme.vars_to_eliminate),
                          !.at = "select"]
    /\ UNCHANGED <<driver_vars, hull_cons, x_disagg>>

\* Lines 201-231: translate the candidates, keep the best one.
FmeSelect ==
    /\ CalledFme
    /\ fme.at = "select"
    /\ LET cs == get_constraint_exprs(fme.projected)
       IN  fme' = [fme EXCEPT
                     !.result = FmeResult(SelectBest(cs, Len(cs), x_rbigm,
                                            config.cut_filtering_threshold,
                                            0, <<>>)),
                     !.at = "return"]
    /\ UNCHANGED <<driver_vars, hull_cons, x_disagg>>

\* Lines 722-733 for create_cuts_fme: the generator has returned.
CreateCutsFme ==
    /\ CalledFme
    /\ fme.at = "return"
    /\ fme' = [fme EXCEPT !.at = "done"]
    /\ gen_cuts' = fme.result
    /\ gen_round' = round
    /\ IF StallBreak(fme.result, improving)
       THEN /\ pc' = "returned"
            /\ exit_state' = "STALLED"
            /\ relaxed' = FALSE
            /\ name_buffer' = {}
            /\ UNCHANGED todo
       ELSE /\ pc' = IF fme.result.items = <<>> THEN "end_round" ELSE "add_cut"
            /\ todo' = fme.result.items
            /\ UNCHANGED <<exit_state, relaxed, name_buffer>>
    /\ UNCHANGED <<err, config, inst, cuts, x_rbigm, x_star, x_hull, results,
                   rBigM_objVal, prev_obj, improving, sep_active, infeas_obj,
                   src_obj_active, round, solves, hull_status, backoff_status,
                   warnings, cut_number, hull_of, hull_cons, x_disagg>>

NextFme ==
    \/ FmeTightConstraints
    \/ FmeCompositeNormal
    \/ FmeProject
    \/ FmeSelect
    \/ CreateCutsFme
    \/ CreateCuts
    \/ AddCut
    \/ BackOffFixed
    \/ BackOffCalculated
    \/ EndRound

SpecFme == InitFme /\ [][NextFme]_vars


\* ------------------------------------------------------------ properties
InLoop == pc \in {"solve_rBigM", "solve_rHull", "create_cuts", "add_cut",
                  "post_process", "end_round"}
NumCuts == Cardinality(DOMAIN cuts)
CutsOfRound(r) == {k \in DOMAIN cuts : cuts[k].round = r}
Epsilon == config.minimum_improvement_threshold

\* the one change a stored cut sees: the post-processor, in the round that
\* stored it, right after it was stored, adds to its body and nothing else
PadOnly(k) ==
    /\ pc = "post_process"
    /\ k = NumCuts - 1
    /\ cuts[k].round = round
    /\ cuts[k].post = 0
    /\ cuts'[k].post = 1
    /\ cuts'[k].coef = cuts[k].coef
    /\ cuts'[k].const = cuts[k].const
    /\ cuts'[k].round = cuts[k].round
    /\ cuts'[k].pad[1] * cuts[k].pad[2] >= cuts[k].pad[1] * cuts'[k].pad[2]

\* C1: during the rounds of one call the cut store only grows, no stored cut
\* is deleted or replaced, and the only change to a stored cut is the single
\* additive pad the post-processor applies to the cut just stored, in the
\* round that stored it; cuts of earlier rounds are never touched.
C1_CutStoreAppendOnly ==
    [][InLoop =>
        /\ DOMAIN cuts \subseteq DOMAIN cuts'
        /\ Cardinality(DOMAIN cuts') >= NumCuts
        /\ \A k \in DOMAIN cuts : cuts'[k] = cuts[k] \/ PadOnly(k)]_vars

\* a padded cut of round 1 is still in the store when round 2 has stored its
\* own
C1_Witness ==
    /\ NumCuts >= 2
    /\ cuts[0].round = 1
    /\ cuts[0].pad # Zero
    /\ cuts[1].round = 2

\* C2: a separation solve that terminates abnormally puts the driver in
\* SOLVE_FAILED in that round; the cut generator is not invoked and no cut is
\* added in that round.
C2_HullFailureStops ==
    (hull_status \notin {NoResults, NORMAL}) =>
        /\ pc = "returned"
        /\ exit_state = "SOLVE_FAILED"
        /\ gen_round # round
        /\ CutsOfRound(round) = {}

\* C3: an rBigM solve that does not terminate normally ends the loop at
\* once: no target value is copied, there is no separation solve, cut
\* generation or post-processing, and the cut store is what it was.
C3_BigMFailureStops ==
    [][(pc = "solve_rBigM" /\ pc' # "solve_rBigM" /\ results' # NORMAL) =>
        /\ pc' = "returned"
        /\ exit_state' = "SOLVE_FAILED"
        /\ x_star' = x_star
        /\ x_hull' = x_hull
        /\ cuts' = cuts
        /\ solves' = solves + 1
        /\ gen_round' = gen_round
        /\ hull_status' = NoResults]_vars

\* the rBigM solve of a later round failed with cuts in the store, and left
\* values in the variables that were not copied to x*
C3_Witness ==
    /\ pc = "returned"
    /\ exit_state = "SOLVE_FAILED"
    /\ results = NONOPTIMAL
    /\ round >= 2
    /\ NumCuts >= 1
    /\ x_rbigm # x_star

\* C4: once the calculated back-off has finished, whatever its solve did, the
\* separation objective is active and the cut-violation objective is gone.
C4_ObjectiveRestored ==
    (backoff_status # NoResults /\ pc # "post_process") =>
        (sep_active /\ ~infeas_obj)

\* C5: a back-off solve that does not terminate normally is not fatal: a
\* warning is logged, the cut stays in the store unpadded, no error leaves
\* the post-processor and the driver goes on.
C5_BackOffFailureNotFatal ==
    (backoff_status \notin {NoResults, NORMAL}) =>
        /\ warnings >= 1
        /\ err = "none"
        /\ pc # "raised"
        /\ cut_number \in DOMAIN cuts
        /\ cuts[cut_number].pad = Zero

\* C6: in a round whose separation objective is below epsilon the loop ends
\* in that round as CONVERGED, the cut generator is not invoked and no cut
\* is added.
C6_ConvergenceStops ==
    [][(/\ pc = "solve_rHull"
        /\ pc' # "solve_rHull"
        /\ SeparationObjective(x_hull', x_star') * Epsilon[2] < Epsilon[1]) =>
        /\ pc' = "returned"
        /\ exit_state' = "CONVERGED"
        /\ cuts' = cuts
        /\ gen_round' = gen_round]_vars

\* converged in a later round, on a separation objective that is not zero
C6_Witness ==
    /\ pc = "returned"
    /\ exit_state = "CONVERGED"
    /\ round >= 2
    /\ NumCuts >= 1
    /\ SeparationObjective(x_hull, x_star) > 0

\* C7: a round in which the generator returns no cut, or whose improvement
\* test is false, ends the loop and leaves the cut store as it was; a cut
\* generated in a round without improvement is never added.
C7_StallStops ==
    [][(/\ pc \in {"solve_rHull", "create_cuts"}
        /\ pc' # pc
        /\ ~improving \/ (pc = "create_cuts" /\ gen_cuts'.isNone)) =>
        /\ cuts' = cuts
        /\ pc' \in {"create_cuts", "returned"}
        /\ pc = "create_cuts" => (pc' = "returned" /\ exit_state' = "STALLED")]_vars

\* stalled with a cut in hand that was not added
C7_Witness ==
    /\ pc = "returned"
    /\ exit_state = "STALLED"
    /\ ~improving
    /\ ~gen_cuts.isNone
    /\ gen_round = round
    /\ CutsOfRound(round) = {}
    /\ NumCuts >= 1

\* the improvement test as the specification words it
ImprovementTest(prev, cur, epsilon) ==
    LET improvement == ObjDiff(prev, cur)
    IN  \/ improvement.inf
        \/ Abs(cur) < 1 /\ Abs(improvement.val) * epsilon[2] > epsilon[1]
        \/ /\ Abs(cur) >= 1
           /\ prev.val # 0
           /\ Abs(improvement.val) * epsilon[2] > epsilon[1] * Abs(prev.val)

\* C8: the flag computed in a round is the improvement test on
\* previous_objective - current_objective, with previous_objective
\* infinite in round 1; previous_objective becomes current_objective only at
\* the end of a round that added cuts.
C8_ImprovementTest ==
    [][/\ (pc = "solve_rBigM" /\ pc' = "solve_rHull") =>
            /\ improving' = ImprovementTest(prev_obj, rBigM_objVal', Epsilon)
            /\ round' = 1 => prev_obj = Inf
       /\ (prev_obj' # prev_obj /\ pc' # "idle") =>
            /\ pc = "end_round"
            /\ prev_obj' = Fin(rBigM_objVal)
            /\ CutsOfRound(round) # {}]_vars

\* a round with a finite previous objective took the relative test and
\* found no improvement
C8_Witness ==
    /\ pc = "solve_rHull"
    /\ ~prev_obj.inf
    /\ Abs(rBigM_objVal) >= 1
    /\ prev_obj.val # rBigM_objVal
    /\ ~improving

\* a cut the post-processor is done with
Settled(k) == config.post_process_cut = "None" \/ cuts[k].post >= 1

\* C9: every cut in the store, once padded, holds at every feasible point of
\* the disjunctive program.
C9_CutsSound ==
    \A k \in DOMAIN cuts :
        Settled(k) => \A x \in FeasibleGDP(inst) : CutSatisfied(cuts[k], x)

\* C10: a program without an active objective makes the call fail with
\* GDP_Error, before any solver is invoked.
C10_MissingObjective ==
    /\ (pc # "idle" /\ ~inst.has_objective /\ err # "AssertionError") =>
            (pc = "raised" /\ err = "GDP_Error")
    /\ err = "GDP_Error" => (solves = 0 /\ round = 0 /\ ~inst.has_objective)

C10_Witness ==
    /\ pc = "raised"
    /\ err = "GDP_Error"
    /\ inst \in Instances
    /\ ~inst.has_objective

\* ------------------------------------------------------------------ C11
\* the body of the normal-vector cut, at the candidate point x*
NormalVectorBodyAtXStar == BodyAt(NormalVectorCut(x_hull, x_star), x_star)
CalledNormalVector ==
    pc = "create_cuts" /\ config.create_cuts = "create_cuts_normal_vector"
OneCut(got) == ~got.isNone /\ Len(got.items) = 1

\* C11 as stated: the normal-vector generator returns exactly one cut
\* "body >= 0" if and only if the body at x* is less than -epsilon, epsilon
\* being the configured minimum-improvement threshold; otherwise none.
C11_CutIffBelowImprovementThreshold ==
    [][CalledNormalVector =>
          /\ OneCut(gen_cuts') <=>
                 IntLtNegRat(NormalVectorBodyAtXStar,
                             config.minimum_improvement_threshold)
          /\ ~OneCut(gen_cuts') => gen_cuts'.isNone]_vars

\* C11 amended: the normal-vector generator returns exactly one cut
\* "body >= 0", the body being the sum of (x_hull - x_star)*(x - x_hull), if
\* and only if the body at x* is less than minus the configured
\* cut-filtering threshold; otherwise it returns none.
C11_CutIffBelowCutFilteringThreshold ==
    [][CalledNormalVector =>
          /\ OneCut(gen_cuts') <=>
                 IntLtNegRat(NormalVectorBodyAtXStar,
                             config.cut_filtering_threshold)
          /\ OneCut(gen_cuts') =>
                 /\ gen_cuts'.items[1].sense = "ge"
                 /\ gen_cuts'.items[1].bound = 0
                 /\ gen_cuts'.items[1].pad = Zero
                 /\ \A x \in Grid :
                        BodyAt(gen_cuts'.items[1], x) =
                            Dot(<<x_hull[1] - x_star[1], x_hull[2] - x_star[2]>>,
                                <<x[1] - x_hull[1], x[2] - x_hull[2]>>)
          /\ ~OneCut(gen_cuts') => gen_cuts'.isNone]_vars

\* a cut was generated although the filtering threshold is the large one:
\* the body at x* lies below -5
C11_Witness ==
    /\ pc = "add_cut"
    /\ config.create_cuts = "create_cuts_normal_vector"
    /\ OneCut(gen_cuts)
    /\ gen_round = round
    /\ config.cut_filtering_threshold = <<5, 1>>
    /\ NormalVectorBodyAtXStar < -5

\* ------------------------------------------------------------ C12 - C14
RatEq(p, q) == p[1] * q[2] = q[1] * p[2]
RatNeg(p) == <<-p[1], p[2]>>
TOLERANCE == config.back_off_problem_tolerance

\* by how much the point x violates the cut (negative: slack)
Violation(cut, x) ==
    IF cut.sense = "ge" THEN cut.bound - BodyAt(cut, x)
    ELSE BodyAt(cut, x) - cut.bound
MaxViolation(cut) ==
    CHOOSE v \in {Violation(cut, x) : x \in HullBox(inst)} :
        \A x \in HullBox(inst) : Violation(cut, x) <= v
MinBody(cut) ==
    CHOOSE m \in {BodyAt(cut, x) : x \in HullBox(inst)} :
        \A x \in HullBox(inst) : m <= BodyAt(cut, x)

\* the stored cut "after" is "before" relaxed by the amount a: a point that
\* violates "before" by no more than a satisfies "after"
PaddedBy(before, after, a) ==
    /\ after.coef = before.coef /\ after.const = before.const
    /\ after.sense = before.sense /\ after.bound = before.bound
    /\ RatEq(after.pad,
             RatAdd(before.pad, IF before.sense = "ge" THEN a ELSE RatNeg(a)))

\* a step of the calculated back-off whose solve terminated normally
CalculatedBackOffStep ==
    /\ pc = "post_process"
    /\ config.post_process_cut =
           "back_off_constraint_with_calculated_cut_violation"
    /\ backoff_status' = NORMAL
    /\ pc' # "raised"
FixedBackOffStep ==
    /\ pc = "post_process"
    /\ config.post_process_cut = "back_off_constraint_by_fixed_tolerance"
    /\ pc' # "post_process"

\* C12 as stated: the calculated back-off measures the maximal violation v
\* of the new cut over the hull relaxation; if v - TOL is positive the cut is
\* padded by exactly v - TOL, otherwise it is left unpadded (x <= 5 with
\* v = 0.2 becomes x <= 5.2 - TOL).
C12_PadIsViolationMinusTolerance ==
    [][CalculatedBackOffStep =>
          LET v == MaxViolation(cuts[cut_number])
              a == <<v * TOLERANCE[2] - TOLERANCE[1], TOLERANCE[2]>>
          IN  PaddedBy(cuts[cut_number], cuts'[cut_number],
                       IF a[1] > 0 THEN a ELSE Zero)]_vars

\* C12 amended: the calculated back-off minimizes the new cut's body over
\* the hull relaxation; with val = minimal value - TOL, if val <= 0 then
\* |val| is added to the cut's body, otherwise the body is left as it is
\* (5 - x >= 0 with minimal body -0.2 becomes 5.2 + TOL - x >= 0).
C12_BodyGetsAbsOfMinimumMinusTolerance ==
    [][CalculatedBackOffStep =>
          LET m == MinBody(cuts[cut_number])
              val == <<m * TOLERANCE[2] - TOLERANCE[1], TOLERANCE[2]>>
              before == cuts[cut_number]
              after == cuts'[cut_number]
          IN  /\ after.coef = before.coef /\ after.const = before.const
              /\ after.sense = before.sense /\ after.bound = before.bound
              /\ RatEq(after.pad,
                       RatAdd(before.pad,
                              IF val[1] <= 0 THEN <<Abs(val[1]), val[2]>>
                              ELSE Zero))]_vars

\* a normally solved back-off measured a negative minimal body and added
\* more than the tolerance 1/2
C12_Witness ==
    /\ config.post_process_cut =
           "back_off_constraint_with_calculated_cut_violation"
    /\ TOLERANCE = <<1, 2>>
    /\ backoff_status = NORMAL
    /\ pc \in {"end_round", "add_cut"}
    /\ cut_number \in DOMAIN cuts
    /\ cuts[cut_number].post = 1
    /\ MinBody(cuts[cut_number]) < 0
    /\ cuts[cut_number].pad[1] * 2 > cuts[cut_number].pad[2]

\* the body was left as it is: the minimal body exceeds the tolerance
C12_WitnessUnpadded ==
    /\ config.post_process_cut =
           "back_off_constraint_with_calculated_cut_violation"
    /\ backoff_status = NORMAL
    /\ pc \in {"end_round", "add_cut"}
    /\ cut_number \in DOMAIN cuts
    /\ cuts[cut_number].post = 1
    /\ MinBody(cuts[cut_number]) > 0
    /\ cuts[cut_number].pad[1] = 0

\* C13: under the calculated back-off, a cut whose maximal violation over
\* the hull relaxation is v >= 0 is padded (relaxed) by v plus the back-off
\* tolerance.
C13_PadIsViolationPlusTolerance ==
    [][CalculatedBackOffStep /\ MaxViolation(cuts[cut_number]) >= 0 =>
          LET v == MaxViolation(cuts[cut_number])
          IN  PaddedBy(cuts[cut_number], cuts'[cut_number],
                       <<v * TOLERANCE[2] + TOLERANCE[1], TOLERANCE[2]>>)]_vars

\* C14: the fixed-tolerance back-off adds the tolerance without a solve and
\* the result is the cut relaxed by exactly TOL: every point that satisfied
\* the cut before satisfies it after.
C14_FixedBackOffRelaxes ==
    [][FixedBackOffStep =>
          /\ solves' = solves
          /\ PaddedBy(cuts[cut_number], cuts'[cut_number], TOLERANCE)
          /\ \A x \in Grid :
                 CutSatisfied(cuts[cut_number], x) =>
                     CutSatisfied(cuts'[cut_number], x)]_vars

\* ------------------------------------------------------------------ C15
\* create_cuts_fme ran its selection loop in this round
FmeSelected == fme.at \in {"return", "done"} /\ fme.normal_vectors # <<>>
\* the translated projected constraints
Candidates ==
    {get_constraint_exprs(fme.projected)[k] : k \in 1..Len(fme.projected)}
ViolatedAtXStar(c) == Violation(c, x_star) > 0
Qualifies(c) ==
    ViolatedAtXStar(c) /\ IntGtRat(Violation(c, x_star),
                                   config.cut_filtering_threshold)

\* C15: the FME generator returns none or exactly one of the translated
\* projected constraints; a returned cut is violated at x* by more than the
\* cut-filtering threshold and no other candidate violated at x* has a
\* larger margin; it returns none exactly when no candidate is violated at
\* x* by more than the threshold.
C15_FmeSelection ==
    FmeSelected =>
        /\ fme.result.isNone \/ Len(fme.result.items) = 1
        /\ ~fme.result.isNone =>
               LET r == fme.result.items[1]
               IN  /\ r \in Candidates
                   /\ Qualifies(r)
                   /\ \A c \in Candidates :
                          ViolatedAtXStar(c) =>
                              Violation(c, x_star) <= Violation(r, x_star)
        /\ fme.result.isNone <=> ~(\E c \in Candidates : Qualifies(c))

\* the selection had two qualifying candidates with different margins, the
\* one with the smaller margin later in the list
C15_Witness ==
    /\ FmeSelected
    /\ ~fme.result.isNone
    /\ LET cs == get_constraint_exprs(fme.projected)
       IN  \E a, b \in 1..Len(cs) :
               /\ a < b
               /\ Qualifies(cs[a]) /\ Qualifies(cs[b])
               /\ Violation(cs[a], x_star) > Violation(cs[b], x_star)
               /\ fme.result.items[1] = cs[a]

\* the selection returned none although a candidate is violated at x*: its
\* margin does not exceed the threshold
C15_WitnessFiltered ==
    /\ FmeSelected
    /\ fme.result.isNone
    /\ \E c \in Candidates : ViolatedAtXStar(c)

\* ------------------------------------------------------------ C16 - C18
\* create_cuts_fme is past its loop over the constraints, the values of the
\* hull variables as the separation solve left them
FmePastLoop == CalledFme /\ fme.at \in {"composite", "project", "select", "return"}
XHat == Point4(x_hull, x_disagg)
AtLower(k) ==
    hull_cons[k].lower # NoBound /\ ConsBody(hull_cons[k], XHat) <= hull_cons[k].lower[1]
AtUpper(k) ==
    hull_cons[k].upper # NoBound /\ ConsBody(hull_cons[k], XHat) >= hull_cons[k].upper[1]
\* the entries of the working set made from the k-th constraint
EntriesOf(k) == {e \in DOMAIN fme.conslist : fme.conslist[e].src = k}
\* an equality constraint (both bounds, equal) that holds exactly
ExactEquality(k) ==
    /\ hull_cons[k].lower # NoBound /\ hull_cons[k].upper # NoBound
    /\ hull_cons[k].lower = hull_cons[k].upper
    /\ ConsBody(hull_cons[k], XHat) = hull_cons[k].lower[1]

\* the normal vectors of the constraints from the k-th on that T holds of,
\* each the gradient at the separating point scaled by -1 (lower bound) or
\* +1 (upper bound)
RECURSIVE NormalsOf(_, _)
NormalsOf(T(_), k) ==
    IF k > Len(hull_cons) THEN <<>>
    ELSE (IF T(k)
          THEN <<[j \in HullVars |->
                    ((IF AtUpper(k) THEN 1 ELSE 0) - (IF AtLower(k) THEN 1 ELSE 0))
                        * Gradient(hull_cons[k], XHat)[j]]>>
          ELSE <<>>) \o NormalsOf(T, k + 1)

\* C16 as stated: every active constraint of the hull relaxation whose body
\* at the separating point equals or violates its lower or its upper bound,
\* an equality constraint satisfied exactly included, is treated as tight:
\* it is in the working set and a normal vector is recorded for it.
C16_AtABoundIsTight ==
    FmePastLoop =>
        LET T(k) == AtLower(k) \/ AtUpper(k)
        IN  /\ \A k \in 1..Len(hull_cons) : T(k) => EntriesOf(k) # {}
            /\ Len(fme.normal_vectors) = Len(NormalsOf(T, 1))

\* C16 amended: every active constraint of the hull relaxation whose body at
\* the separating point equals or violates exactly one of its two bounds
\* (multiplier -1 or +1) is treated as tight: it is in the working set and
\* its gradient scaled by its multiplier is a summand of the composite
\* normal.  A constraint at both bounds at once (an equality constraint
\* satisfied exactly) has multiplier 0 and is not treated as tight: no
\* normal vector is recorded for it, and it is in the working set only if
\* it is a disaggregation constraint.
C16_AtOneBoundIsTight ==
    FmePastLoop =>
        LET T(k) == AtLower(k) # AtUpper(k)
        IN  /\ \A k \in 1..Len(hull_cons) :
                   /\ T(k) => Cardinality(EntriesOf(k)) = 1
                   /\ ~T(k) /\ ~hull_cons[k].disagg => EntriesOf(k) = {}
            /\ fme.normal_vectors = NormalsOf(T, 1)
            /\ fme.at \in {"project", "select"} =>
                   fme.composite_normal = SumVectors(NormalsOf(T, 1))

\* past the loop, with a tight constraint and with an equality constraint
\* that holds exactly and is no disaggregation constraint
C16_Witness ==
    /\ FmePastLoop
    /\ fme.at = "project"
    /\ \E k \in 1..Len(hull_cons) :
           ExactEquality(k) /\ ~hull_cons[k].disagg /\ EntriesOf(k) = {}
    /\ \E k \in 1..Len(hull_cons) :
           AtLower(k) # AtUpper(k) /\ hull_cons[k].deg = 2

\* C17: the working set holds every active disaggregation constraint of the
\* hull relaxation exactly once, as the constraint itself, whether or not it
\* is tight at the separating point; one that is not tight adds nothing to
\* the normal vectors the composite normal is the sum of.
C17_DisaggregationConstraintsOnce ==
    FmePastLoop =>
        \A k \in 1..Len(hull_cons) :
            hull_cons[k].disagg =>
                /\ Cardinality(EntriesOf(k)) = 1
                /\ \A e \in EntriesOf(k) :
                       /\ fme.conslist[e].coef = hull_cons[k].coef
                       /\ fme.conslist[e].lower = hull_cons[k].lower
                       /\ fme.conslist[e].upper = hull_cons[k].upper
                /\ (AtLower(k) = AtUpper(k)) =>
                       LET Others(j) == j # k /\ AtLower(j) # AtUpper(j)
                       IN  fme.normal_vectors = NormalsOf(Others, 1)

\* the disaggregation constraint holds exactly at the separating point, is
\* in the working set, and another constraint gave a normal vector
C17_Witness ==
    /\ FmePastLoop
    /\ fme.normal_vectors # <<>>
    /\ \E k \in 1..Len(hull_cons) :
           /\ hull_cons[k].disagg
           /\ ExactEquality(k)
           /\ Cardinality(EntriesOf(k)) = 1

\* the disaggregation constraint is violated at the separating point: it is
\* tight and in the working set once
C17_WitnessTight ==
    /\ FmePastLoop
    /\ \E k \in 1..Len(hull_cons) :
           /\ hull_cons[k].disagg
           /\ AtLower(k) # AtUpper(k)
           /\ Cardinality(EntriesOf(k)) = 1

\* create_cuts_fme has its projected constraints
FmeProjectedNow == CalledFme /\ fme.at = "select"

\* C18: the elimination is run if and only if some disaggregated variable
\* has a nonzero coefficient in the composite normal; when it is run every
\* disaggregated variable is in the set to eliminate (none is left in a
\* projected constraint); when it is not run the cut in the extended space
\* is the only candidate passed on to translation and filtering: a call
\* that has a composite normal gets to the translation.
C18_EliminationIffDisaggregatedInNormal ==
    /\ FmeProjectedNow =>
        LET needed == \E v \in DisaggregatedVars : fme.composite_normal[v] # 0
            cut == fme.conslist[Len(fme.conslist)]
        IN  /\ cut.src = 0 /\ cut.coef = fme.composite_normal
            /\ needed =>
                   /\ fme.vars_to_eliminate = DisaggregatedVars
                   /\ \A e \in DOMAIN fme.projected :
                          /\ fme.projected[e].upper = NoBound
                          /\ \A v \in DisaggregatedVars :
                                 fme.projected[e].coef[v] = 0
            /\ ~needed => fme.projected = <<cut>>
    /\ fme.at # "raised"

\* ------------------------------------------------------------------ C19
\* the two relaxations: the values of their variables, their constraints
\* (the cut store of rBigM, the constraints of rHull), their objectives
Relaxations == <<x_rbigm, x_star, x_hull, x_disagg, cuts, hull_cons,
                 sep_active, infeas_obj, src_obj_active, hull_of>>

\* C19: a cut generator (normal-vector or FME) leaves the two relaxations as
\* they were before the call: variable values, constraints, objectives and
\* the cut store; the working block of the FME generator is not attached to
\* either of them.
C19_GeneratorsLeaveRelaxations ==
    [][pc = "create_cuts" => UNCHANGED Relaxations]_vars

\* the FME generator went through the elimination and returned a cut, which
\* the driver has not stored yet
C19_Witness ==
    /\ pc = "add_cut"
    /\ config.create_cuts = "create_cuts_fme"
    /\ fme.at = "done"
    /\ fme.do_fme
    /\ Len(fme.conslist) >= 2
    /\ ~gen_cuts.isNone
    /\ gen_round = round
    /\ cuts = <<>>
    /\ Len(hull_cons) >= Len(HullConstraints(inst))

\* the normal-vector generator returned a cut, not stored yet
C19_WitnessNormalVector ==
    /\ pc = "add_cut"
    /\ config.create_cuts = "create_cuts_normal_vector"
    /\ ~gen_cuts.isNone
    /\ gen_round = round
    /\ cuts = <<>>

\* ------------------------------------------------------------------ C20
\* C20: the hull relaxation used for the separation problem is the hull
\* reformulation of the model the tighten_relaxation callback returned (with
\* the default callback, of the source program itself).
C20_HullOfTightenedModel ==
    hull_of # "none" => hull_of = TightenResult(config)

\* ------------------------------------------------------------------ C21
\* a round's rBigM solve terminated normally and its objective value is taken
ObjectiveObserved == pc = "solve_rBigM" /\ pc' \in {"solve_rHull", "raised"}

\* C21 as stated: for a maximization objective the objective values of the
\* relaxed big-M problem observed in successive rounds never decrease.
C21_MaximizationNonDecreasing ==
    [][(ObjectiveObserved /\ inst.sense = "maximize" /\ ~prev_obj.inf) =>
        rBigM_objVal' >= prev_obj.val]_vars

\* C21, amended: for a maximization objective the objective values of the
\* relaxed big-M problem observed in successive rounds never increase (every
\* round solves the previous round's problem with cuts added), and for a
\* minimization objective they never decrease.
C21_ObjectiveMonotoneInSense ==
    [][(ObjectiveObserved /\ ~prev_obj.inf) =>
        IF inst.sense = "maximize"
        THEN rBigM_objVal' <= prev_obj.val
        ELSE rBigM_objVal' >= prev_obj.val]_vars

\* round 2 of a maximization observed a smaller objective value than round 1
C21_Witness ==
    /\ pc = "solve_rHull"
    /\ inst.sense = "maximize"
    /\ round >= 2
    /\ ~prev_obj.inf
    /\ rBigM_objVal < prev_obj.val

\* the same for a minimization: a larger value in round 2 (the previous
\* value was 0, and the improvement test that follows divides by it)
C21_WitnessMinimize ==
    /\ pc = "raised"
    /\ inst.sense = "minimize"
    /\ round >= 2
    /\ ~prev_obj.inf
    /\ rBigM_objVal > prev_obj.val

\* ------------------------------------------------------------------ C22
\* The steps of one call of _generate_cuttingplanes.  The code is
\* sequential: when the solver call of a step returns, the step is taken.
LoopStep ==
    \/ SolveBigM
    \/ SolveHull
    \/ CreateCuts
    \/ AddCut
    \/ BackOffFixed
    \/ BackOffCalculated
    \/ EndRound

\* the driver under the assumption that every solver call returns
SpecLive == Spec /\ WF_vars(LoopStep)

TerminalStates == {"CONVERGED", "STALLED", "SOLVE_FAILED"}
\* the model follows a call for MaxRounds rounds and no further
RoundsExhausted == pc = "solve_rBigM" /\ round >= MaxRounds

\* the four causes of an exit, read in the state after the exit
ExitCaused ==
    \/ exit_state = "SOLVE_FAILED" /\ NORMAL \notin {results, hull_status}
    \/ exit_state = "CONVERGED"
           /\ SeparationConverged(SeparationObjective(x_hull, x_star), Epsilon)
    \/ exit_state = "STALLED" /\ (gen_cuts.isNone \/ ~improving)

\* C22: when every solver call returns, a call that entered the loop
\* eventually leaves ITERATING for CONVERGED, STALLED or SOLVE_FAILED, and
\* every exit of the loop is caused by an abnormal solver termination, a
\* false improvement test, a separation objective below epsilon or a
\* generator that returned no cut.
C22_Termination ==
    /\ [](InLoop => <>(exit_state \in TerminalStates \/ RoundsExhausted))
    /\ [][(InLoop /\ ~InLoop') =>
            (exit_state' \in TerminalStates /\ ExitCaused')]_vars

\* ------------------------------------------------------------------ C23
\* the multiplier of the k-th constraint as the claim words it: 1 if an upper
\* bound exists and upper <= body, minus 1 if a lower bound exists and
\* lower >= body
UpperTerm(k) ==
    IF hull_cons[k].upper # NoBound
           /\ hull_cons[k].upper[1] <= ConsBody(hull_cons[k], XHat)
    THEN 1 ELSE 0
LowerTerm(k) ==
    IF hull_cons[k].lower # NoBound
           /\ hull_cons[k].lower[1] >= ConsBody(hull_cons[k], XHat)
    THEN 1 ELSE 0
Multiplier(k) == UpperTerm(k) - LowerTerm(k)
NonZeroMultiplier(k) == Multiplier(k) # 0

\* C23: the multiplier of every constraint at the separating point is the
\* upper term minus the lower term: -1 at or below the lower bound only, +1
\* at or above the upper bound only, the sum of the two when both hold and 0
\* when neither holds; the normal vectors are the gradients scaled by the
\* non-zero multipliers, and a constraint with multiplier 0 is skipped
\* unless it is a disaggregation constraint.
C23_TightnessMultiplier ==
    FmePastLoop =>
        /\ \A k \in 1..Len(hull_cons) :
               /\ constraint_tight(hull_cons[k], XHat) = Multiplier(k)
               /\ (LowerTerm(k) = 1 /\ UpperTerm(k) = 0) => Multiplier(k) = -1
               /\ (UpperTerm(k) = 1 /\ LowerTerm(k) = 0) => Multiplier(k) = 1
               /\ (LowerTerm(k) = 0 /\ UpperTerm(k) = 0) => Multiplier(k) = 0
               /\ Multiplier(k) # 0 => EntriesOf(k) # {}
               /\ Multiplier(k) = 0 =>
                      IF hull_cons[k].disagg
                      THEN Cardinality(EntriesOf(k)) = 1
                      ELSE EntriesOf(k) = {}
        /\ fme.normal_vectors = NormalsOf(NonZeroMultiplier, 1)

\* past the loop with a constraint of each kind: multiplier -1, multiplier
\* +1, both bounds met (sum 0, skipped), and a disaggregation constraint
\* with multiplier 0 that was kept
C23_Witness ==
    /\ FmePastLoop
    /\ \E k \in 1..Len(hull_cons) : Multiplier(k) = -1 /\ EntriesOf(k) # {}
    /\ \E k \in 1..Len(hull_cons) : Multiplier(k) = 1 /\ EntriesOf(k) # {}
    /\ \E k \in 1..Len(hull_cons) :
           /\ LowerTerm(k) = 1 /\ UpperTerm(k) = 1
           /\ ~hull_cons[k].disagg
           /\ EntriesOf(k) = {}
    /\ \E k \in 1..Len(hull_cons) :
           Multiplier(k) = 0 /\ hull_cons[k].disagg /\ EntriesOf(k) # {}

\* a constraint strictly inside its bounds was skipped
C23_WitnessSlack ==
    /\ FmePastLoop
    /\ \E k \in 1..Len(hull_cons) :
           /\ LowerTerm(k) = 0 /\ UpperTerm(k) = 0
           /\ ~hull_cons[k].disagg
           /\ EntriesOf(k) = {}

\* ------------------------------------------------------------------ C24
\* the number of times a stored cut is handed to the post-processor when
\* the loop body is done with it: once, if a post-processor is configured
HandedOnce(k) ==
    cuts[k].post = IF config.post_process_cut = "None" THEN 0 ELSE 1
\* the cut the loop body has stored and not yet post-processed
InHand(k) == pc = "post_process" /\ k = cut_number /\ cuts[k].post = 0

\* C24: every candidate cut is stored at the next free index, the n-th cut
\* added at index n-1: the indices of the store are 0..N-1 without gaps, no
\* index is written twice, and every stored cut is handed to the configured
\* post-processor exactly once.
C24_NextFreeIndex ==
    /\ [](/\ DOMAIN cuts = 0..(NumCuts - 1)
          /\ \A k \in DOMAIN cuts : HandedOnce(k) \/ InHand(k)
          /\ \A k \in DOMAIN cuts : \A j \in DOMAIN cuts :
                 k < j => cuts[k].round < cuts[j].round)
    /\ [][(pc = "add_cut") =>
            /\ cut_number' = NumCuts
            /\ cut_number' \notin DOMAIN cuts
            /\ DOMAIN cuts' = 0..NumCuts
            /\ cuts'[NumCuts].coef = Head(todo).coef
            /\ cuts'[NumCuts].const = Head(todo).const
            /\ cuts'[NumCuts].post = 0
            /\ \A k \in DOMAIN cuts : cuts'[k] = cuts[k]]_vars

\* three cuts were added in three rounds, at the indices 0, 1, 2, and each
\* went through the post-processor once
C24_Witness ==
    /\ NumCuts = 3
    /\ config.post_process_cut # "None"
    /\ pc # "post_process"
    /\ \A k \in 0..2 : cuts[k].round = k + 1 /\ cuts[k].post = 1

\* ------------------------------------------------------------------ C25
\* C25: when the loop ends in a terminal state (CONVERGED, STALLED or
\* SOLVE_FAILED), the call restores the integrality of the program's
\* variables and clears the name buffer before it returns to the caller.
C25_CleanupAfterTerminalState ==
    /\ [](pc = "returned" =>
            /\ exit_state \in TerminalStates
            /\ ~relaxed
            /\ name_buffer = {})
    /\ [][(InLoop /\ exit_state' \in TerminalStates) =>
            (pc' = "returned" /\ ~relaxed' /\ name_buffer' = {})]_vars

\* returned after a round that relaxed the program and cached names: in
\* each of the three terminal states
C25_Witness ==
    /\ pc = "returned"
    /\ exit_state = "CONVERGED"
    /\ x_star # NoPoint
    /\ NumCuts >= 1
    /\ ~relaxed
    /\ name_buffer = {}

C25_WitnessStalled ==
    /\ pc = "returned"
    /\ exit_state = "STALLED"
    /\ x_star # NoPoint
    /\ ~relaxed
    /\ name_buffer = {}

C25_WitnessSolveFailed ==
    /\ pc = "returned"
    /\ exit_state = "SOLVE_FAILED"
    /\ x_star # NoPoint
    /\ ~relaxed
    /\ name_buffer = {}

\* ------------------------------------------------------------------ C26
\* the active objectives of instance_rHull
ActiveObjectives ==
    (IF sep_active THEN {"separation_objective"} ELSE {})
        \cup (IF infeas_obj THEN {"infeasibility_objective"} ELSE {})
        \cup (IF src_obj_active THEN {"source"} ELSE {})

\* C26: at every separation solve of the driver, in round 1 and in the
\* rounds that follow a back-off, the hull relaxation has exactly one active
\* objective, the separation objective; the objectives of the source
\* program are inactive during the whole run.
C26_OneActiveObjective ==
    /\ pc = "solve_rHull" => ActiveObjectives = {"separation_objective"}
    /\ InLoop => ~src_obj_active

\* a separation solve is due in a round that follows a calculated back-off
\* whose solve terminated normally and padded the cut
C26_Witness ==
    /\ pc = "solve_rHull"
    /\ round >= 2
    /\ config.post_process_cut =
           "back_off_constraint_with_calculated_cut_violation"
    /\ backoff_status = NORMAL
    /\ NumCuts >= 1
    /\ cuts[0].post = 1
    /\ ActiveObjectives = {"separation_objective"}

\* ------------------------------------------------------------------ C27
\* C27: the name buffer is empty after every call of the transformation,
\* one that returned and one that raised, so the assertion at the entry of
\* every later call holds.
C27_NameBufferEmptyAfterCall ==
    /\ pc \in {"returned", "raised", "idle"} => name_buffer = {}
    /\ err # "AssertionError"

\* ------------------------------------------------------------------ C28
\* C28: for every finite previous and current objective value, the case
\* previous = 0 with |current| >= 1 included, the improvement test yields a
\* boolean and raises nothing: a round whose rBigM solve terminated normally
\* goes on to the separation solve.
C28_ImprovementTestTotal ==
    [][(pc = "solve_rBigM" /\ results' = NORMAL) =>
        /\ pc' = "solve_rHull"
        /\ err' = "none"
        /\ improving' \in BOOLEAN]_vars

\* ------------------------------------------------------------------ C29
RatLt(p, q) == p[1] * q[2] < q[1] * p[2]
RatLe(p, q) == p[1] * q[2] <= q[1] * p[2]
CutThreshold == config.cut_filtering_threshold

\* the body of the normal-vector cut at x* is minus the separation
\* objective, and the generator evaluates it at x*
BodyIsMinusSeparationObjective ==
    CalledNormalVector =>
        /\ x_rbigm = x_star
        /\ NormalVectorBodyAtXStar = -SeparationObjective(x_hull, x_star)

\* C29 as stated: the body of the normal-vector cut at x* is minus the
\* separation objective, so the generator, which the driver invokes only with
\* a separation objective of at least epsilon, returns a cut whenever the
\* cut-filtering threshold is at most epsilon.
C29_CutWhenThresholdAtMostEpsilon ==
    /\ []BodyIsMinusSeparationObjective
    /\ [][(CalledNormalVector /\ RatLe(CutThreshold, Epsilon)) =>
            OneCut(gen_cuts')]_vars

\* C29 amended: the same with a cut-filtering threshold below epsilon (as in
\* the default configuration, 0.001 < 0.01); then the loop never stalls for
\* lack of a candidate: STALLED is reached only through a false improvement
\* test.
C29_CutWhenThresholdBelowEpsilon ==
    /\ []BodyIsMinusSeparationObjective
    /\ [][(CalledNormalVector /\ RatLt(CutThreshold, Epsilon)) =>
            /\ OneCut(gen_cuts')
            /\ exit_state' = "STALLED" => ~improving]_vars

\* with the default thresholds the generator returned a cut, in a round that
\* improved and in a round that stalled on the improvement test
C29_Witness ==
    /\ config.create_cuts = "create_cuts_normal_vector"
    /\ RatLt(CutThreshold, Epsilon)
    /\ gen_round = round
    /\ round >= 2
    /\ OneCut(gen_cuts)
    /\ pc = "returned"
    /\ exit_state = "STALLED"
    /\ ~improving

\* equal thresholds and a separation objective equal to them: the
\* generator was invoked and returned none
C29_WitnessEqualThresholds ==
    /\ config = EqualThresholds
    /\ gen_round = round
    /\ gen_cuts.isNone
    /\ pc = "returned"
    /\ exit_state = "STALLED"
    /\ improving
    /\ SeparationObjective(x_hull, x_star) = 1

\* ------------------------------------------------------------------ C30
\* C30: every round that does not leave the loop adds exactly one cut: in
\* round r the store holds r-1 cuts until the round's cut is added and r
\* cuts from then on, and whenever the loop is left in round r, by a return,
\* a break or an exception, the store holds r-1 cuts.
C30_OneCutPerRound ==
    /\ pc \in {"solve_rHull", "create_cuts", "add_cut"} => NumCuts = round - 1
    /\ pc \in {"post_process", "end_round", "solve_rBigM"} => NumCuts = round
    /\ (pc \in {"returned", "raised"} /\ round >= 1) => NumCuts = round - 1

\* ------------------------------------------------------------------ C31
\* C31: the integrality relaxation applied to the program during setup is
\* undone on every exit of the transformation, the exit by the
\* missing-objective error included: the caller never gets the program back
\* with its discrete variables relaxed.
C31_IntegralityRestoredOnEveryExit ==
    pc \in {"returned", "raised"} => ~relaxed

====
